---- MODULE Spec2Model ----
(***************************************************************************)
(* Model of the cifar-ten crate: the CIFAR-10 binary record decoder        *)
(* (src/lib.rs: Cifar10 builder, get_data, build, build_as_flat_f32) and   *)
(* the archive download with its progress thread (src/download.rs).        *)
(*                                                                         *)
(* Rust indices are 0-based; TLA+ sequences are 1-based.  Element i of a   *)
(* Rust Vec is element i+1 of the sequence that models it.                 *)
(***************************************************************************)
EXTENDS Integers, Sequences, FiniteSets, TLC

(***************************************************************************)
(* Program constants                                                       *)
(***************************************************************************)
RecordSize == 3073
PayloadSize == 3072
NumClasses == 10
MaxLabel == 9
Channels == 3
Height == 32
Width == 32
FlatWidth == 32 * 32 * 3
ScaleDen == 256
DefaultNumRecordsTrain == 50000
DefaultNumRecordsTest == 10000
ARCHIVE_DOWNLOAD_SIZE == 170052171

(***************************************************************************)
(* Bounds of the model                                                     *)
(***************************************************************************)
MaxRecords == 4
MaxRecordsTest == 2
MaxWrites == 3

(***************************************************************************)
(* The files on disk.  A file is described by the records it was written   *)
(* from and the number of leading bytes that are actually on disk (keep),  *)
(* so that a file may end in the middle of a record.  A record is one      *)
(* label byte and 3072 payload bytes; payload bytes are generated from a   *)
(* pattern so that every (channel, row, column) position of an image can   *)
(* be told apart from its neighbours.                                      *)
(***************************************************************************)
Pixel(rec, off) ==
    IF rec.pat = "planes"
    THEN rec.seed + 10 * (off \div 1024)
    ELSE 10 + ((rec.seed + off + 7 * (off \div 32) + 31 * (off \div 1024)) % 246)

RecordBytes(rec) ==
    <<rec.label>> \o [p \in 1..PayloadSize |-> Pixel(rec, p - 1)]

RECURSIVE AllRecordBytes(_)
AllRecordBytes(recs) ==
    IF recs = <<>> THEN <<>>
    ELSE RecordBytes(Head(recs)) \o AllRecordBytes(Tail(recs))

Rec(l, p, s) == [label |-> l, pat |-> p, seed |-> s]

Disk ==
    [ data_batch_1 |-> [exists |-> TRUE,
                        recs |-> <<Rec(3, "planes", 10), Rec(7, "ramp", 5)>>,
                        keep |-> 2 * RecordSize],
      data_batch_2 |-> [exists |-> TRUE,
                        recs |-> <<Rec(0, "ramp", 77), Rec(9, "ramp", 140)>>,
                        keep |-> 2 * RecordSize],
      data_batch_3 |-> [exists |-> FALSE, recs |-> <<>>, keep |-> 0],
      test_batch   |-> [exists |-> TRUE,
                        recs |-> <<Rec(5, "ramp", 200), Rec(1, "planes", 10)>>,
                        keep |-> 2 * RecordSize],
      cut_batch    |-> [exists |-> TRUE,
                        recs |-> <<Rec(2, "ramp", 9), Rec(6, "ramp", 33)>>,
                        keep |-> RecordSize + 100],
      bad_first    |-> [exists |-> TRUE,
                        recs |-> <<Rec(10, "ramp", 1)>>,
                        keep |-> RecordSize],
      bad_second   |-> [exists |-> TRUE,
                        recs |-> <<Rec(4, "ramp", 50), Rec(200, "ramp", 60)>>,
                        keep |-> 2 * RecordSize],
      empty_batch  |-> [exists |-> TRUE, recs |-> <<>>, keep |-> 0] ]

FileExists(name) == name \in DOMAIN Disk /\ Disk[name].exists

\* the bytes of every file, as read_to_end delivers them
DiskBytes ==
    [name \in DOMAIN Disk |->
        SubSeq(AllRecordBytes(Disk[name].recs), 1, Disk[name].keep)]

FileBytes(name) == DiskBytes[name]

(***************************************************************************)
(* Values a builder setter may be called with.                             *)
(***************************************************************************)
DefaultTrainingBinPaths ==
    <<"data_batch_1", "data_batch_2", "data_batch_3", "data_batch_4", "data_batch_5">>

DefaultTestingBinPaths == <<"test_batch">>

TrainingPathChoices ==
    { <<"data_batch_1", "data_batch_2">>,
      <<"data_batch_2", "data_batch_1">>,
      <<"data_batch_1">>,
      <<"cut_batch">>,
      <<"bad_first">>,
      <<"data_batch_1", "bad_second">>,
      <<"empty_batch">>,
      <<>> }

TestingPathChoices ==
    { <<"test_batch">>, <<"bad_second">>, <<"data_batch_3">> }

NumRecordsTrainChoices == 0..MaxRecords

NumRecordsTestChoices == 1..MaxRecordsTest

(***************************************************************************)
(* ndarray values.  An Array4<u8> is its shape and its elements in         *)
(* standard (row-major) order, as Array::from_shape_vec lays them out; an  *)
(* Array2<u8> is its shape and its rows.                                   *)
(***************************************************************************)
Product(shape) ==
    IF Len(shape) = 0 THEN 1
    ELSE IF Len(shape) = 2 THEN shape[1] * shape[2]
    ELSE shape[1] * shape[2] * shape[3] * shape[4]

NoArray == [shape |-> <<>>, vec |-> <<>>]

NoLabels == [shape |-> <<>>, rows |-> <<>>]

Zeros2(n, m) ==
    [shape |-> <<n, m>>, rows |-> [i \in 1..n |-> [j \in 1..m |-> 0]]]

\* arr[[i, c, r, k]] of an Array4 in standard layout
Index4(arr, i, c, r, k) ==
    arr.vec[((i * arr.shape[2] + c) * arr.shape[3] + r) * arr.shape[4] + k + 1]

\* arr[[i, j]] of an Array2
Index2(arr, i, j) == arr.rows[i + 1][j + 1]

InBounds2(arr, i, j) == i < arr.shape[1] /\ j < arr.shape[2]

\* the 1 lands one column to the right of the label
SetOneNextColumn(arr, i, j) ==
    [arr EXCEPT !.rows[i + 1][((j + 1) % arr.shape[2]) + 1] = 1]

\* arr[[i, j]] = 1
SetOne(arr, i, j) == [arr EXCEPT !.rows[i + 1][j + 1] = 1]

\* Array::from_shape_vec(shape, v): Err(ShapeError) unless v has exactly
\* as many elements as the shape asks for
FromShapeVec(shape, v) ==
    IF Product(shape) = Len(v)
    THEN [ok |-> TRUE, arr |-> [shape |-> shape, vec |-> v]]
    ELSE [ok |-> FALSE, arr |-> NoArray]

(***************************************************************************)
(* get_data.  The outcome of a call is                                     *)
(*   kind = "ok"    : Ok((data, labels))                                   *)
(*   kind = "err"   : Err(..) returned through `?`                         *)
(*   kind = "panic" : the call unwinds; site is the source line that       *)
(*                    panics, what is "io", "shape", "buffer_index",       *)
(*                    "labels_index", "slice" or "label_range", and value  *)
(*                    is the label the Label-Range message prints          *)
(* buffer is the local Vec<u8> as it was when the call ended.              *)
(***************************************************************************)
Outcome(kind, what, site, value, num, buffer, data, labels) ==
    [kind |-> kind, what |-> what, site |-> site, value |-> value,
     num |-> num, buffer |-> buffer, data |-> data, labels |-> labels]

NotCalled == Outcome("none", "", 0, 0, 0, <<>>, NoArray, NoLabels)

\* the file just read is put in front of what was read before
ExtendFront(buffer, temp_buffer) == temp_buffer \o buffer

\* line 275: buffer.extend(&temp_buffer)
Extend(buffer, temp_buffer) == buffer \o temp_buffer

\* the slice starts at the label byte: &buffer[base..base + 3072]
PayloadFromLabel(buffer, base) == SubSeq(buffer, base + 1, base + PayloadSize)

\* line 298: &buffer[base + 1..=base + 3072]
Payload(buffer, base) == SubSeq(buffer, base + 2, base + PayloadSize + 1)

\* lines 266-280: for bin in &bin_paths { File::open(..)?; read_to_end; extend }
RECURSIVE ReadLoop(_, _, _)
ReadLoop(bin_paths, k, buffer) ==
    IF k > Len(bin_paths) THEN [ok |-> TRUE, buffer |-> buffer]
    ELSE IF ~FileExists(bin_paths[k]) THEN [ok |-> FALSE, buffer |-> buffer]
    ELSE ReadLoop(bin_paths, k + 1, Extend(buffer, FileBytes(bin_paths[k])))

\* the loop ends quietly where the buffer ends, with the records decoded so far
RECURSIVE DecodeLoopStopsAtEnd(_, _, _, _, _)
DecodeLoopStopsAtEnd(buffer, num_records, num, labels, data) ==
    IF num >= num_records \/ num * RecordSize + PayloadSize >= Len(buffer)
    THEN Outcome("ok", "", 0, 0, num, buffer, data, labels)
    ELSE LET base == num * RecordSize
             label == buffer[base + 1]
         IN  IF label > MaxLabel
             THEN Outcome("panic", "label_range", 292, label, num, buffer, NoArray, NoLabels)
             ELSE DecodeLoopStopsAtEnd(buffer, num_records, num + 1,
                                       SetOne(labels, num, label),
                                       data \o Payload(buffer, base))

\* lines 287-299: one iteration per record, leaving the loop at the first panic
RECURSIVE DecodeLoop(_, _, _, _, _)
DecodeLoop(buffer, num_records, num, labels, data) ==
    IF num >= num_records
    THEN Outcome("ok", "", 0, 0, num, buffer, data, labels)
    ELSE LET base == num * RecordSize IN
         IF base >= Len(buffer)
         THEN Outcome("panic", "buffer_index", 290, 0, num, buffer, NoArray, NoLabels)
         ELSE LET label == buffer[base + 1] IN
              IF label > MaxLabel
              THEN Outcome("panic", "label_range", 292, label, num, buffer, NoArray, NoLabels)
              ELSE IF base + PayloadSize >= Len(buffer)
              THEN Outcome("panic", "slice", 298, 0, num, buffer, NoArray, NoLabels)
              ELSE DecodeLoop(buffer, num_records, num + 1,
                              SetOne(labels, num, label),
                              data \o Payload(buffer, base))

\* lines 283-300 and 336
Decode(buffer, num_records) ==
    LET labels == Zeros2(num_records, NumClasses) IN
    IF Len(buffer) = 0
    THEN Outcome("panic", "buffer_index", 284, 0, 0, buffer, NoArray, NoLabels)
    ELSE IF ~InBounds2(labels, 0, buffer[1])
    THEN Outcome("panic", "labels_index", 284, 0, 0, buffer, NoArray, NoLabels)
    ELSE LET lp == DecodeLoop(buffer, num_records, 0, SetOne(labels, 0, buffer[1]), <<>>) IN
         IF lp.kind # "ok" THEN lp
         ELSE LET arr == FromShapeVec(<<num_records, Channels, Height, Width>>, lp.data) IN
              IF arr.ok
              THEN Outcome("ok", "", 0, 0, lp.num, buffer, arr.arr, lp.labels)
              ELSE Outcome("err", "shape", 300, 0, lp.num, buffer, NoArray, NoLabels)

\* lines 257-337 (the preview of line 302 only prints without the `show` feature)
GetData(cfg, dataset) ==
    LET bin_paths == IF dataset = "train" THEN cfg.training_bin_paths
                     ELSE cfg.testing_bin_paths
        num_records == IF dataset = "train" THEN cfg.num_records_train
                       ELSE cfg.num_records_test
        rd == ReadLoop(bin_paths, 1, <<>>)
    IN  IF ~rd.ok
        THEN Outcome("err", "io", 270, 0, 0, rd.buffer, NoArray, NoLabels)
        ELSE Decode(rd.buffer, num_records)

(***************************************************************************)
(* f32 values.  Every value the crate computes is a u8 cast to f32,        *)
(* possibly divided by 256, which f32 represents exactly; a value is kept  *)
(* as the fraction num/den.                                                *)
(***************************************************************************)
AsF32(x) == [num |-> x, den |-> 1]

DivF32(v, d) == [num |-> v.num, den |-> v.den * d]

\* labels.mapv(|x| x as f32)
CastLabels(labels) ==
    [shape |-> labels.shape,
     rows |-> [i \in DOMAIN labels.rows |->
                 [j \in DOMAIN labels.rows[i] |-> AsF32(labels.rows[i][j])]]]

\* data.into_shape((n, m)): Err(ShapeError) unless the element counts agree;
\* the elements keep their standard order
IntoShape2(arr, n, m) ==
    IF Product(arr.shape) = n * m
    THEN [ok |-> TRUE,
          arr |-> [shape |-> <<n, m>>,
                   rows |-> [i \in 1..n |-> [j \in 1..m |-> arr.vec[(i - 1) * m + j]]]]]
    ELSE [ok |-> FALSE, arr |-> NoLabels]

\* the scale is 255 instead of 256
ScaleData255(arr) ==
    [shape |-> arr.shape,
     rows |-> [i \in DOMAIN arr.rows |->
                 [j \in DOMAIN arr.rows[i] |-> DivF32(AsF32(arr.rows[i][j]), 255)]]]

\* .mapv(|x| x as f32 / 256.)
ScaleData(arr) ==
    [shape |-> arr.shape,
     rows |-> [i \in DOMAIN arr.rows |->
                 [j \in DOMAIN arr.rows[i] |-> DivF32(AsF32(arr.rows[i][j]), ScaleDen)]]]

(***************************************************************************)
(* State                                                                   *)
(***************************************************************************)
VARIABLES
    config,   \* the Cifar10 struct being built
    pc,       \* "config": the builder is live; "done": an entry point consumed it
    entry,    \* the entry point called: "build" or "build_as_flat_f32"
    train,    \* outcome of get_data(&self, "train")
    test,     \* outcome of get_data(&self, "test")
    result,   \* what the entry point handed to its caller
    main_pc,      \* download(): where the calling thread is
    pb_pc,        \* download(): where the progress thread is
    file_size,    \* bytes of the archive file on disk
    current_size, \* the progress thread's local current_size
    body_left,    \* bytes of the response body not yet handed to write_function
    writes,       \* calls of write_function so far
    platform      \* cfg!(unix), and whether the archive file already exists

decoder_vars == <<config, pc, entry, train, test, result>>

download_vars ==
    <<main_pc, pb_pc, file_size, current_size, body_left, writes, platform>>

vars == <<config, pc, entry, train, test, result,
          main_pc, pb_pc, file_size, current_size, body_left, writes, platform>>

Returned(kind, what, train_data, train_labels, test_data, test_labels) ==
    [kind |-> kind, what |-> what,
     train_data |-> train_data, train_labels |-> train_labels,
     test_data |-> test_data, test_labels |-> test_labels]

NoResult == Returned("none", "", NoArray, NoLabels, NoArray, NoLabels)

\* an Err propagated by `?`, or the panic that unwinds through the entry point
Failed(o) == Returned(o.kind, o.what, NoArray, NoLabels, NoArray, NoLabels)

\* Cifar10::default()
Default ==
    [encode_one_hot |-> TRUE,
     training_bin_paths |-> DefaultTrainingBinPaths,
     testing_bin_paths |-> DefaultTestingBinPaths,
     num_records_train |-> DefaultNumRecordsTrain,
     num_records_test |-> DefaultNumRecordsTest]

DecoderInit ==
    /\ config = Default
    /\ pc = "config"
    /\ entry = "none"
    /\ train = NotCalled
    /\ test = NotCalled
    /\ result = NoResult

\* download() has not been called
DownloadIdle ==
    /\ main_pc = "idle"
    /\ pb_pc = "none"
    /\ file_size = 0
    /\ current_size = 0
    /\ body_left = 0
    /\ writes = 0
    /\ platform = [unix |-> TRUE, exists |-> FALSE]

Init == DecoderInit /\ DownloadIdle

(***************************************************************************)
(* Builder setters                                                         *)
(***************************************************************************)
encode_one_hot(b) ==
    /\ pc = "config"
    /\ config' = [config EXCEPT !.encode_one_hot = b]
    /\ UNCHANGED <<pc, entry, train, test, result, download_vars>>

training_bin_paths(paths) ==
    /\ pc = "config"
    /\ config' = [config EXCEPT !.training_bin_paths = paths]
    /\ UNCHANGED <<pc, entry, train, test, result, download_vars>>

testing_bin_paths(paths) ==
    /\ pc = "config"
    /\ config' = [config EXCEPT !.testing_bin_paths = paths]
    /\ UNCHANGED <<pc, entry, train, test, result, download_vars>>

num_records_train(n) ==
    /\ pc = "config"
    /\ config' = [config EXCEPT !.num_records_train = n]
    /\ UNCHANGED <<pc, entry, train, test, result, download_vars>>

num_records_test(n) ==
    /\ pc = "config"
    /\ config' = [config EXCEPT !.num_records_test = n]
    /\ UNCHANGED <<pc, entry, train, test, result, download_vars>>

(***************************************************************************)
(* Entry points                                                            *)
(***************************************************************************)
\* lines 153-156
BuildResult(tr, te) ==
    IF tr.kind # "ok" THEN Failed(tr)
    ELSE IF te.kind # "ok" THEN Failed(te)
    ELSE Returned("ok", "", tr.data, tr.labels, te.data, te.labels)

\* lines 221-233
FlatResult(cfg, tr, te) ==
    IF tr.kind # "ok" THEN Failed(tr)
    ELSE IF te.kind # "ok" THEN Failed(te)
    ELSE LET train_labels == CastLabels(tr.labels)
             train_shaped == IntoShape2(tr.data, cfg.num_records_train, FlatWidth)
             test_labels == CastLabels(te.labels)
             test_shaped == IntoShape2(te.data, cfg.num_records_test, FlatWidth)
         IN  IF ~train_shaped.ok \/ ~test_shaped.ok
             THEN Returned("err", "shape", NoArray, NoLabels, NoArray, NoLabels)
             ELSE Returned("ok", "", ScaleData(train_shaped.arr), train_labels,
                           ScaleData(test_shaped.arr), test_labels)

Build ==
    /\ pc = "config"
    /\ LET tr == GetData(config, "train")
           te == IF tr.kind = "ok" THEN GetData(config, "test") ELSE NotCalled
       IN  /\ train' = tr
           /\ test' = te
           /\ result' = BuildResult(tr, te)
    /\ entry' = "build"
    /\ pc' = "done"
    /\ UNCHANGED <<config, download_vars>>

BuildAsFlatF32 ==
    /\ pc = "config"
    /\ LET tr == GetData(config, "train")
           te == IF tr.kind = "ok" THEN GetData(config, "test") ELSE NotCalled
       IN  /\ train' = tr
           /\ test' = te
           /\ result' = FlatResult(config, tr, te)
    /\ entry' = "build_as_flat_f32"
    /\ pc' = "done"
    /\ UNCHANGED <<config, download_vars>>

Next ==
    \/ \E b \in BOOLEAN : encode_one_hot(b)
    \/ \E paths \in TrainingPathChoices : training_bin_paths(paths)
    \/ \E paths \in TestingPathChoices : testing_bin_paths(paths)
    \/ \E n \in NumRecordsTrainChoices : num_records_train(n)
    \/ \E n \in NumRecordsTestChoices : num_records_test(n)
    \/ Build
    \/ BuildAsFlatF32

Spec == Init /\ [][Next]_vars

(***************************************************************************)
(* download() of src/download.rs.  The calling thread creates the archive  *)
(* file, spawns the progress thread, runs the transfer (libcurl calls      *)
(* write_function once per chunk of the response body) and joins the       *)
(* progress thread.  The progress thread polls the size of the file.       *)
(***************************************************************************)
Min(a, b) == IF a < b THEN a ELSE b

\* sizes of the response body the server may send
BodySizes ==
    {0, 1024, ARCHIVE_DOWNLOAD_SIZE - 1, ARCHIVE_DOWNLOAD_SIZE,
     ARCHIVE_DOWNLOAD_SIZE + 4096}

\* sizes of the chunk one call of write_function may receive
ChunkSizes(left) == {left, Min(left, 1024), (left + 1) \div 2}

DownloadInit ==
    /\ DecoderInit
    /\ main_pc = "start"
    /\ pb_pc = "none"
    /\ platform \in [unix : BOOLEAN, exists : BOOLEAN]
    /\ file_size = IF platform.exists THEN ARCHIVE_DOWNLOAD_SIZE ELSE 0
    /\ current_size = 0
    /\ body_left \in BodySizes
    /\ writes = 0

\* lines 42-48 and 90: an archive that is already there is not downloaded
CheckExists ==
    /\ main_pc = "start"
    /\ main_pc' = IF platform.exists THEN "returned" ELSE "create"
    /\ UNCHANGED <<pb_pc, file_size, current_size, body_left, writes, platform,
                   decoder_vars>>

\* lines 55-57 and 86: File::create, then match cfg!(unix)
CreateFile ==
    /\ main_pc = "create"
    /\ file_size' = 0
    /\ main_pc' = IF platform.unix THEN "spawn" ELSE "returned"
    /\ UNCHANGED <<pb_pc, current_size, body_left, writes, platform, decoder_vars>>

\* lines 60-66: thread::spawn; the thread starts with current_size = 0
SpawnProgress ==
    /\ main_pc = "spawn"
    /\ pb_pc' = "check"
    /\ current_size' = 0
    /\ main_pc' = "perform"
    /\ UNCHANGED <<file_size, body_left, writes, platform, decoder_vars>>

\* lines 78-81: file.write_all(data) for one chunk of n bytes
WriteFunction(n) ==
    /\ main_pc = "perform"
    /\ body_left > 0
    /\ n > 0
    /\ writes + 1 < MaxWrites \/ n = body_left
    /\ file_size' = file_size + n
    /\ body_left' = body_left - n
    /\ writes' = writes + 1
    /\ UNCHANGED <<main_pc, pb_pc, current_size, platform, decoder_vars>>

\* line 83: easy.perform() returns Ok once the whole body was delivered
PerformDone ==
    /\ main_pc = "perform"
    /\ body_left = 0
    /\ main_pc' = "join"
    /\ UNCHANGED <<pb_pc, file_size, current_size, body_left, writes, platform,
                   decoder_vars>>

\* line 83: easy.perform() returns Err (the transfer broke) and unwrap panics
PerformFails ==
    /\ main_pc = "perform"
    /\ body_left > 0
    /\ main_pc' = "panicked"
    /\ UNCHANGED <<pb_pc, file_size, current_size, body_left, writes, platform,
                   decoder_vars>>

\* lines 84 and 90: pb_thread.join() returns when the thread has ended
Join ==
    /\ main_pc = "join"
    /\ pb_pc = "done"
    /\ main_pc' = "returned"
    /\ UNCHANGED <<pb_pc, file_size, current_size, body_left, writes, platform,
                   decoder_vars>>

\* lines 67 and 74: while current_size < full_size
PbCheck ==
    /\ pb_pc = "check"
    /\ pb_pc' = IF current_size < ARCHIVE_DOWNLOAD_SIZE THEN "poll" ELSE "done"
    /\ UNCHANGED <<main_pc, file_size, current_size, body_left, writes, platform,
                   decoder_vars>>

\* lines 68-71: current_size = fs::metadata(file_name).size()
PbPoll ==
    /\ pb_pc = "poll"
    /\ current_size' = file_size
    /\ pb_pc' = "sleep"
    /\ UNCHANGED <<main_pc, file_size, body_left, writes, platform, decoder_vars>>

\* line 72: thread::sleep_ms(10)
PbSleep ==
    /\ pb_pc = "sleep"
    /\ pb_pc' = "check"
    /\ UNCHANGED <<main_pc, file_size, current_size, body_left, writes, platform,
                   decoder_vars>>

MainStep ==
    \/ CheckExists
    \/ CreateFile
    \/ SpawnProgress
    \/ \E n \in ChunkSizes(body_left) : WriteFunction(n)
    \/ PerformDone
    \/ Join

PbStep == PbCheck \/ PbPoll \/ PbSleep

DownloadNext == MainStep \/ PerformFails \/ PbStep

DownloadSpec == DownloadInit /\ [][DownloadNext]_vars

\* Both threads are scheduled, and a transfer that does not break goes on.
DownloadFairSpec ==
    DownloadInit /\ [][DownloadNext]_vars /\ WF_vars(MainStep) /\ WF_vars(PbStep)

(***************************************************************************)
(* Properties                                                              *)
(***************************************************************************)
Splits == {"train", "test"}

Out(ds) == IF ds = "train" THEN train ELSE test

NumRecords(ds) ==
    IF ds = "train" THEN config.num_records_train ELSE config.num_records_test

BinPaths(ds) ==
    IF ds = "train" THEN config.training_bin_paths ELSE config.testing_bin_paths

\* get_data got past its read loop: buffer is the whole concatenation
BufferRead(o) == o.kind \in {"ok", "panic"} \/ (o.kind = "err" /\ o.what # "io")

RECURSIVE SumTo(_, _)
SumTo(row, k) == IF k = 0 THEN 0 ELSE row[k] + SumTo(row, k - 1)

SumSeq(row) == SumTo(row, Len(row))

\* bytes of the files listed before the k-th one
RECURSIVE BytesBefore(_, _)
BytesBefore(paths, k) ==
    IF k <= 1 THEN 0 ELSE BytesBefore(paths, k - 1) + Len(DiskBytes[paths[k - 1]])

PayloadOffsets ==
    {c * 1024 + r * 32 + k : c \in 0..2, r \in 0..31, k \in 0..31}

C2_ImageRoundTrip ==
    /\ PayloadOffsets = 0..3071
    /\ \A ds \in Splits :
        LET o == Out(ds)
            n == NumRecords(ds)
        IN  o.kind = "ok" =>
              \A i \in 0..(n - 1) :
                 /\ \A c \in 0..2 : \A r \in 0..31 : \A k \in 0..31 :
                       Index4(o.data, i, c, r, k)
                          = o.buffer[i * 3073 + 1 + c * 1024 + r * 32 + k + 1]
                 /\ \A e \in 1..Len(o.data.vec) :
                       o.data.vec[e] # o.buffer[i * 3073 + 1]

C2_Witness ==
    /\ pc = "done"
    /\ train.kind = "ok"
    /\ config.num_records_train >= 2
    /\ Index4(train.data, 0, 0, 0, 0) = 10
    /\ Index4(train.data, 0, 1, 31, 31) = 20
    /\ Index4(train.data, 0, 2, 0, 31) = 30

\* C3: the buffer of a split is the concatenation of the full contents of
\* its files in file-list order; record j of the k-th listed file is decoded
\* at record index (records in all earlier listed files) + j; the train
\* split reads the training list and count, the test split the testing ones.
C3_ConcatInListOrder ==
    \A ds \in Splits :
        LET o == Out(ds)
            n == NumRecords(ds)
            paths == BinPaths(ds)
        IN  /\ BufferRead(o) =>
                /\ Len(o.buffer) = BytesBefore(paths, Len(paths) + 1)
                /\ \A f \in 1..Len(paths) :
                      LET before == BytesBefore(paths, f)
                          bytes == DiskBytes[paths[f]]
                      IN  \A b \in 1..Len(bytes) : o.buffer[before + b] = bytes[b]
            /\ o.kind = "ok" =>
                /\ o.labels.shape[1] = n
                /\ \A f \in 1..Len(paths) :
                      LET before == BytesBefore(paths, f)
                          file == Disk[paths[f]]
                      IN  before % 3073 = 0 =>
                            \A j \in 0..(Len(file.recs) - 1) :
                               LET idx == (before \div 3073) + j IN
                               ((j + 1) * 3073 <= file.keep /\ idx < n) =>
                                  /\ Index2(o.labels, idx, file.recs[j + 1].label) = 1
                                  /\ \A off \in 0..3071 :
                                        o.data.vec[idx * 3072 + off + 1]
                                           = Pixel(file.recs[j + 1], off)

C3_Witness ==
    /\ pc = "done"
    /\ config.training_bin_paths = <<"data_batch_1", "data_batch_2">>
    /\ config.num_records_train = 4
    /\ train.kind = "ok"
    /\ Index2(train.labels, 0, 3) = 1
    /\ Index2(train.labels, 1, 7) = 1
    /\ Index2(train.labels, 2, 0) = 1
    /\ Index2(train.labels, 3, 9) = 1
    /\ test.kind = "ok"

\* C4 as stated: get_data returns a dataset only if the buffer length is
\* exactly N*3073; a shorter and a longer buffer both make the decode fail.
C4_ExactLengthOnly ==
    \A ds \in Splits :
        Out(ds).kind = "ok" => Len(Out(ds).buffer) = NumRecords(ds) * 3073

\* C4 as amended: get_data returns a dataset only if the buffer length is at
\* least N*3073, and then all N records are decoded; a shorter buffer makes
\* the call panic on an out-of-range index or slice (or on a label above 9
\* met before the end) and nothing is returned; a longer buffer whose first N
\* labels are in 0..9 (N >= 1) is accepted and the excess bytes are ignored.
C4_AtLeastLength ==
    \A ds \in Splits :
        LET o == Out(ds)
            n == NumRecords(ds)
        IN  /\ o.kind = "ok" =>
                /\ Len(o.buffer) >= n * 3073
                /\ o.num = n
                /\ o.labels.shape[1] = n
                /\ Len(o.data.vec) = n * 3072
            /\ (BufferRead(o) /\ Len(o.buffer) < n * 3073) =>
                /\ o.kind = "panic"
                /\ o.what \in {"buffer_index", "labels_index", "slice", "label_range"}
                /\ o.data = NoArray
                /\ o.labels = NoLabels
            /\ (/\ BufferRead(o)
                /\ n >= 1
                /\ Len(o.buffer) > n * 3073
                /\ \A i \in 0..(n - 1) : o.buffer[i * 3073 + 1] <= 9) =>
                o.kind = "ok"

C4_Witness ==
    /\ pc = "done"
    /\ train.kind = "ok"
    /\ Len(train.buffer) > config.num_records_train * 3073
    /\ test.kind = "panic"
    /\ Len(test.buffer) < config.num_records_test * 3073

\* the records of a buffer whose label byte is above 9
Offending(o, n) ==
    {i \in 0..(n - 1) : i * 3073 < Len(o.buffer) /\ o.buffer[i * 3073 + 1] > 9}

\* C5: whenever some record i in 0..N (record 0 included) has a label byte
\* above 9, the decode aborts with the Label-Range error that reports the
\* offending label, at the first offending record, and returns no tensors.
C5_LabelRangeError ==
    \A ds \in Splits :
        LET o == Out(ds)
            bad == Offending(o, NumRecords(ds))
        IN  (BufferRead(o) /\ bad # {}) =>
               LET first == CHOOSE i \in bad : \A j \in bad : i <= j IN
               /\ o.kind = "panic"
               /\ o.what = "label_range"
               /\ o.value = o.buffer[first * 3073 + 1]
               /\ o.num = first
               /\ o.data = NoArray
               /\ o.labels = NoLabels

\* C6: every fatal decode error reaches the caller of build and
\* build_as_flat_f32 as an Err of the returned Result; no call panics.
C6_ErrorsAreErr ==
    pc = "done" => result.kind \in {"ok", "err"}

\* C7: with encode_one_hot(true) the returned labels are one-hot rows of
\* shape (N,10); with encode_one_hot(false) they are plain integer labels in
\* 0..9, one per record, of shape (N,).
C7_OneHotToggle ==
    (pc = "done" /\ entry = "build" /\ result.kind = "ok") =>
        IF config.encode_one_hot
        THEN /\ result.train_labels.shape = <<config.num_records_train, 10>>
             /\ result.test_labels.shape = <<config.num_records_test, 10>>
        ELSE /\ result.train_labels.shape = <<config.num_records_train>>
             /\ result.test_labels.shape = <<config.num_records_test>>
             /\ \A i \in 0..(config.num_records_train - 1) :
                   result.train_labels.rows[i + 1] = train.buffer[i * 3073 + 1]
             /\ \A i \in 0..(config.num_records_test - 1) :
                   result.test_labels.rows[i + 1] = test.buffer[i * 3073 + 1]

\* C8: build_as_flat_f32 returns the dataset that get_data produced for
\* build, flattened and scaled: it succeeds exactly when both get_data calls
\* do, flat_image has shape (N,3072) with
\* flat_image[i][c*1024 + r*32 + k] = image[i][c][r][k] / 256 (so 256 times
\* the value is the original byte and no value exceeds 255/256), and
\* flat_labels has the shape and the values of the integer label tensor.
FlatMatches(flat_data, flat_labels, o, n) ==
    /\ flat_data.shape = <<n, 3072>>
    /\ DOMAIN flat_data.rows = 1..n
    /\ flat_labels.shape = o.labels.shape
    /\ DOMAIN flat_labels.rows = DOMAIN o.labels.rows
    /\ \A i \in 0..(n - 1) :
          /\ DOMAIN flat_data.rows[i + 1] = 1..3072
          /\ \A c \in 0..2 : \A r \in 0..31 : \A k \in 0..31 :
                LET v == flat_data.rows[i + 1][c * 1024 + r * 32 + k + 1] IN
                /\ v.den > 0
                /\ v.num * 256 = Index4(o.data, i, c, r, k) * v.den
                /\ v.num * 256 <= 255 * v.den
          /\ DOMAIN flat_labels.rows[i + 1] = DOMAIN o.labels.rows[i + 1]
          /\ \A j \in 0..9 :
                LET v == flat_labels.rows[i + 1][j + 1] IN
                /\ v.den > 0
                /\ v.num = Index2(o.labels, i, j) * v.den

C9_TotalOnWellFormed ==
    \A ds \in Splits :
        LET o == Out(ds)
            n == NumRecords(ds)
        IN  (/\ BufferRead(o)
             /\ Len(o.buffer) = n * 3073
             /\ \A i \in 0..(n - 1) : o.buffer[i * 3073 + 1] <= 9) =>
               /\ o.kind = "ok"
               /\ o.data.shape = <<n, 3, 32, 32>>
               /\ o.labels.shape = <<n, 10>>

\* C10: once the transfer has completed, whatever number of bytes it
\* carried, the progress thread terminates and download() returns.
C10_DownloadReturns ==
    (main_pc = "join") ~> (pb_pc = "done" /\ main_pc = "returned")

====
